---- MODULE Spec2Model ----
(***************************************************************************)
(* A model of the in-circuit Groth16 verifier of src/src/constraints.rs.   *)
(*                                                                         *)
(* Circuit variables are identified with the values assigned to them; the  *)
(* constraint system keeps the number of allocations requested, the number *)
(* of prime-order checks requested and whether every enforced boolean is   *)
(* true.  The pairing capability (PairingVar, CurveVar) is modelled by a   *)
(* toy bilinear group: a curve point is a number s + Order * t, where s is *)
(* its discrete logarithm in the subgroup of order Order and t # 0 puts it *)
(* outside that subgroup; a target-group value is a number modulo          *)
(* Order * ExpCofactor, the Miller loop adds "unreduced" values and the    *)
(* final exponentiation multiplies by ExpCofactor.                         *)
(*                                                                         *)
(* Every fallible capability operation takes `fail`, the name of the       *)
(* operation that fails in this call ("none": nothing fails), and returns  *)
(* an outcome: Ok(value), Err(name) for a SynthesisError, or Abort(text)   *)
(* for a panic.  A panic ends the call it happens in; the model records it *)
(* as the call's outcome and lets a later call follow, as for a caller     *)
(* that catches the unwind.                                                *)
(***************************************************************************)
EXTENDS Integers, Sequences, FiniteSets, TLC

\* ------------------------------------------------------------------ bounds
Order == 3
Cofactor == 2
ExpCofactor == 2
NumBits == 2
MaxQuery == 3
MaxInputs == 2
MaxAllocs == 18

\* --------------------------------------------------------------- outcomes
Ok(v) == [kind |-> "Ok", val |-> v]
Err(e) == [kind |-> "Err", val |-> e]
Abort(m) == [kind |-> "Abort", val |-> m]

\* ------------------------------------------------- the group capability
GtModulus == Order * ExpCofactor
PtS(p) == p % Order
PtT(p) == (p \div Order) % Cofactor
Pt(s, t) == s + Order * t
InSubgroup(p) == PtT(p) = 0

\* g_ic += encoded_input_i
G1_add(p, q) == Pt((PtS(p) + PtS(q)) % Order, (PtT(p) + PtT(q)) % Cofactor)

G1_double(p) == G1_add(p, p)

\* self.gamma_g2.negate()
negate(g, fail) ==
    IF fail = "negate" THEN Err("negate")
    ELSE Ok(Pt((Order - PtS(g)) % Order, (Cofactor - PtT(g)) % Cofactor))

prepare_g1(g, fail) ==
    IF fail = "prepare_g1" THEN Err("prepare_g1") ELSE Ok([prep |-> "G1", pt |-> g])

prepare_g2(g, fail) ==
    IF fail = "prepare_g2" THEN Err("prepare_g2") ELSE Ok([prep |-> "G2", pt |-> g])

\* input.to_bits_le() of one element of a BooleanInputVar: its own bits
to_bits_le(input, fail) ==
    IF fail = "to_bits_le" THEN Err("to_bits_le") ELSE Ok(input)

\* double-and-add over the bits, least significant first
RECURSIVE mul_bits_le(_, _, _)
mul_bits_le(res, power, bits) ==
    IF bits = << >> THEN res
    ELSE mul_bits_le(IF Head(bits) = 1 THEN G1_add(res, power) ELSE res,
                     G1_double(power), Tail(bits))

scalar_mul_le(b, bits, fail) ==
    IF fail = "scalar_mul_le" THEN Err("scalar_mul_le")
    ELSE Ok(mul_bits_le(0, b, bits))

\* the Miller function of one pair: its value modulo Order is the product of
\* the discrete logarithms, the rest is removed by the final exponentiation
MillerFn(p, q) ==
    (PtS(p) * PtS(q) + Order * ((PtS(p) + PtS(q) + PtT(p) + 1) % ExpCofactor)) % GtModulus

RECURSIVE MillerSum(_, _)
MillerSum(ps, qs) ==
    IF ps = << >> \/ qs = << >> THEN 0
    ELSE (MillerFn(Head(ps).pt, Head(qs).pt) + MillerSum(Tail(ps), Tail(qs))) % GtModulus

miller_loop(ps, qs, fail) ==
    IF fail = "miller_loop" THEN Err("miller_loop") ELSE Ok(MillerSum(ps, qs))

final_exponentiation(f, fail) ==
    IF fail = "final_exponentiation" THEN Err("final_exponentiation")
    ELSE Ok((f * ExpCofactor) % GtModulus)

pairing(p, q, fail) ==
    IF fail = "pairing" THEN Err("pairing")
    ELSE Ok((MillerFn(p.pt, q.pt) * ExpCofactor) % GtModulus)

is_eq(a, b, fail) ==
    IF fail = "is_eq" THEN Err("is_eq") ELSE Ok(a = b)

\* ------------------------------------------------------ VerifyingKeyVar
prepare_unnegated(vk, fail) ==
    LET alpha_g1_pc == prepare_g1(vk.alpha_g1, fail) IN
    IF alpha_g1_pc.kind # "Ok" THEN alpha_g1_pc ELSE
    LET beta_g2_pc == prepare_g2(vk.beta_g2, fail) IN
    IF beta_g2_pc.kind # "Ok" THEN beta_g2_pc ELSE
    LET alpha_g1_beta_g2 == pairing(alpha_g1_pc.val, beta_g2_pc.val, fail) IN
    IF alpha_g1_beta_g2.kind # "Ok" THEN alpha_g1_beta_g2 ELSE
    LET gamma_g2_neg_pc == prepare_g2(vk.gamma_g2, fail) IN
    IF gamma_g2_neg_pc.kind # "Ok" THEN gamma_g2_neg_pc ELSE
    LET delta_g2_neg_pc == prepare_g2(vk.delta_g2, fail) IN
    IF delta_g2_neg_pc.kind # "Ok" THEN delta_g2_neg_pc ELSE
    Ok([alpha_g1_beta_g2 |-> alpha_g1_beta_g2.val,
        gamma_g2_neg_pc |-> gamma_g2_neg_pc.val,
        delta_g2_neg_pc |-> delta_g2_neg_pc.val,
        gamma_abc_g1 |-> vk.gamma_abc_g1])

\* VerifyingKeyVar::prepare
prepare(vk, fail) ==
    LET alpha_g1_pc == prepare_g1(vk.alpha_g1, fail) IN
    IF alpha_g1_pc.kind # "Ok" THEN alpha_g1_pc ELSE
    LET beta_g2_pc == prepare_g2(vk.beta_g2, fail) IN
    IF beta_g2_pc.kind # "Ok" THEN beta_g2_pc ELSE
    LET alpha_g1_beta_g2 == pairing(alpha_g1_pc.val, beta_g2_pc.val, fail) IN
    IF alpha_g1_beta_g2.kind # "Ok" THEN alpha_g1_beta_g2 ELSE
    LET gamma_neg == negate(vk.gamma_g2, fail) IN
    IF gamma_neg.kind # "Ok" THEN gamma_neg ELSE
    LET gamma_g2_neg_pc == prepare_g2(gamma_neg.val, fail) IN
    IF gamma_g2_neg_pc.kind # "Ok" THEN gamma_g2_neg_pc ELSE
    LET delta_neg == negate(vk.delta_g2, fail) IN
    IF delta_neg.kind # "Ok" THEN delta_neg ELSE
    LET delta_g2_neg_pc == prepare_g2(delta_neg.val, fail) IN
    IF delta_g2_neg_pc.kind # "Ok" THEN delta_g2_neg_pc ELSE
    Ok([alpha_g1_beta_g2 |-> alpha_g1_beta_g2.val,
        gamma_g2_neg_pc |-> gamma_g2_neg_pc.val,
        delta_g2_neg_pc |-> delta_g2_neg_pc.val,
        gamma_abc_g1 |-> vk.gamma_abc_g1])

\* ------------------------------------------------ Groth16VerifierGadget
\* The for loop of step A.  Zip::next takes the next public input first and
\* the next key element second: when the key elements are exhausted the input
\* already taken from public_inputs is dropped.
RECURSIVE zip_loop(_, _, _, _, _)
zip_loop(g_ic, input_len, public_inputs, bs, fail) ==
    IF public_inputs = << >>
    THEN Ok([g_ic |-> g_ic, input_len |-> input_len, public_inputs |-> public_inputs])
    ELSE IF bs = << >>
    THEN Ok([g_ic |-> g_ic, input_len |-> input_len,
             public_inputs |-> Tail(public_inputs)])
    ELSE LET bits == to_bits_le(Head(public_inputs), fail) IN
         IF bits.kind # "Ok" THEN bits ELSE
         LET encoded_input_i == scalar_mul_le(Head(bs), bits.val, fail) IN
         IF encoded_input_i.kind # "Ok" THEN encoded_input_i ELSE
         zip_loop(G1_add(g_ic, encoded_input_i.val), input_len + 1,
                  Tail(public_inputs), Tail(bs), fail)

\* step A with the i-th input paired with the i-th key element (no skip(1))
accumulate_noskip(circuit_pvk, x, fail) ==
    IF circuit_pvk.gamma_abc_g1 = << >> THEN Abort("index out of bounds")
    ELSE LET l == zip_loop(circuit_pvk.gamma_abc_g1[1], 1, x,
                           SubSeq(circuit_pvk.gamma_abc_g1, 1,
                                  Len(circuit_pvk.gamma_abc_g1) - 1), fail) IN
         IF l.kind # "Ok" THEN l
         ELSE IF l.val.input_len = Len(circuit_pvk.gamma_abc_g1)
                 /\ l.val.public_inputs = << >>
              THEN Ok(l.val.g_ic)
              ELSE Abort("assertion failed")

\* step A of verify_with_processed_vk: the block that computes g_ic
accumulate(circuit_pvk, x, fail) ==
    IF circuit_pvk.gamma_abc_g1 = << >> THEN Abort("index out of bounds")
    ELSE LET l == zip_loop(circuit_pvk.gamma_abc_g1[1], 1, x,
                           Tail(circuit_pvk.gamma_abc_g1), fail) IN
         IF l.kind # "Ok" THEN l
         ELSE IF l.val.input_len = Len(circuit_pvk.gamma_abc_g1)
                 /\ l.val.public_inputs = << >>
              THEN Ok(l.val.g_ic)
              ELSE Abort("assertion failed")

\* step B without the final exponentiation
verify_with_processed_vk_noexp(circuit_pvk, x, proof, fail) ==
    LET g_ic == accumulate(circuit_pvk, x, fail) IN
    IF g_ic.kind # "Ok" THEN g_ic ELSE
    LET proof_a_prep == prepare_g1(proof.a, fail) IN
    IF proof_a_prep.kind # "Ok" THEN proof_a_prep ELSE
    LET proof_b_prep == prepare_g2(proof.b, fail) IN
    IF proof_b_prep.kind # "Ok" THEN proof_b_prep ELSE
    LET proof_c_prep == prepare_g1(proof.c, fail) IN
    IF proof_c_prep.kind # "Ok" THEN proof_c_prep ELSE
    LET g_ic_prep == prepare_g1(g_ic.val, fail) IN
    IF g_ic_prep.kind # "Ok" THEN g_ic_prep ELSE
    LET test_exp == miller_loop(<<proof_a_prep.val, g_ic_prep.val, proof_c_prep.val>>,
                                <<proof_b_prep.val, circuit_pvk.gamma_g2_neg_pc,
                                  circuit_pvk.delta_g2_neg_pc>>, fail) IN
    IF test_exp.kind # "Ok" THEN test_exp ELSE
    is_eq(test_exp.val, circuit_pvk.alpha_g1_beta_g2, fail)

\* Groth16VerifierGadget::verify_with_processed_vk
verify_with_processed_vk(circuit_pvk, x, proof, fail) ==
    LET g_ic == accumulate(circuit_pvk, x, fail) IN
    IF g_ic.kind # "Ok" THEN g_ic ELSE
    LET proof_a_prep == prepare_g1(proof.a, fail) IN
    IF proof_a_prep.kind # "Ok" THEN proof_a_prep ELSE
    LET proof_b_prep == prepare_g2(proof.b, fail) IN
    IF proof_b_prep.kind # "Ok" THEN proof_b_prep ELSE
    LET proof_c_prep == prepare_g1(proof.c, fail) IN
    IF proof_c_prep.kind # "Ok" THEN proof_c_prep ELSE
    LET g_ic_prep == prepare_g1(g_ic.val, fail) IN
    IF g_ic_prep.kind # "Ok" THEN g_ic_prep ELSE
    LET test_exp == miller_loop(<<proof_a_prep.val, g_ic_prep.val, proof_c_prep.val>>,
                                <<proof_b_prep.val, circuit_pvk.gamma_g2_neg_pc,
                                  circuit_pvk.delta_g2_neg_pc>>, fail) IN
    IF test_exp.kind # "Ok" THEN test_exp ELSE
    LET test == final_exponentiation(test_exp.val, fail) IN
    IF test.kind # "Ok" THEN test ELSE
    is_eq(test.val, circuit_pvk.alpha_g1_beta_g2, fail)

\* the caller's key, inputs and proof after a call that accumulates into
\* gamma_abc_g1[0] itself and takes the inputs out of x itself
verify_with_processed_vk_in_place(circuit_pvk, x, proof, fail) ==
    IF circuit_pvk.gamma_abc_g1 = << >>
    THEN [circuit_pvk |-> circuit_pvk, x |-> x, proof |-> proof]
    ELSE LET l == zip_loop(circuit_pvk.gamma_abc_g1[1], 1, x,
                           Tail(circuit_pvk.gamma_abc_g1), fail) IN
         IF l.kind # "Ok" THEN [circuit_pvk |-> circuit_pvk, x |-> x, proof |-> proof]
         ELSE [circuit_pvk |-> [circuit_pvk EXCEPT !.gamma_abc_g1[1] = l.val.g_ic],
               x |-> l.val.public_inputs,
               proof |-> proof]

\* The caller's key, inputs and proof after verify_with_processed_vk: the
\* three are borrowed, and the call accumulates into a clone of
\* gamma_abc_g1[0], iterates over a clone of x and only reads the proof.
verify_with_processed_vk_borrowed(circuit_pvk, x, proof, fail) ==
    [circuit_pvk |-> circuit_pvk, x |-> x, proof |-> proof]

\* verify that goes on with a key prepared without failures when prepare fails
verify_swallow(circuit_vk, x, proof, fail) ==
    LET pvk == prepare(circuit_vk, fail) IN
    IF pvk.kind # "Ok"
    THEN verify_with_processed_vk(prepare(circuit_vk, "none").val, x, proof, fail)
    ELSE verify_with_processed_vk(pvk.val, x, proof, fail)

\* Groth16VerifierGadget::verify
verify(circuit_vk, x, proof, fail) ==
    LET pvk == prepare(circuit_vk, fail) IN
    IF pvk.kind # "Ok" THEN pvk
    ELSE verify_with_processed_vk(pvk.val, x, proof, fail)

\* Groth16VerifierGadget::verifier_size
verifier_size(circuit_vk) == Len(circuit_vk.gamma_abc_g1)

\* ------------------------------------------------------------ allocation
Modes == {"Constant", "Input", "Witness"}

EmptyCs == [num_allocs |-> 0, num_checks |-> 0, sat |-> TRUE]

\* CurveVar::new_variable_omit_prime_order_check
new_variable_omit_prime_order_check(cs, g, mode) ==
    [res |-> Ok(g), cs |-> [cs EXCEPT !.num_allocs = @ + 1]]

\* G1Var / G2Var::new_variable: the allocation that asks for the prime-order
\* check.  What the capability does with a point outside the subgroup is not
\* decided by this repository: `rej` says whether it refuses the allocation.
G_new_variable(cs, g, mode, rej) ==
    IF rej /\ ~InSubgroup(g)
    THEN [res |-> Err("NotInSubgroup"), cs |-> cs]
    ELSE [res |-> Ok(g),
          cs |-> [cs EXCEPT !.num_allocs = @ + 1, !.num_checks = @ + 1]]

\* GTVar::new_variable and G2PreparedVar::new_variable
T_new_variable(cs, v, mode) ==
    [res |-> Ok(v), cs |-> [cs EXCEPT !.num_allocs = @ + 1]]

\* Vec<G1Var>::new_variable: one G1Var::new_variable per element, in order
RECURSIVE Vec_new_variable(_, _, _, _)
Vec_new_variable(cs, gs, mode, rej) ==
    IF gs = << >> THEN [res |-> Ok(<< >>), cs |-> cs]
    ELSE LET g == G_new_variable(cs, Head(gs), mode, rej) IN
         IF g.res.kind # "Ok" THEN g ELSE
         LET rest == Vec_new_variable(g.cs, Tail(gs), mode, rej) IN
         IF rest.res.kind # "Ok" THEN rest
         ELSE [res |-> Ok(<<g.res.val>> \o rest.res.val), cs |-> rest.cs]

\* iter().map(new_variable_omit_prime_order_check).collect()
RECURSIVE Vec_new_variable_unchecked(_, _, _)
Vec_new_variable_unchecked(cs, gs, mode) ==
    IF gs = << >> THEN [res |-> Ok(<< >>), cs |-> cs]
    ELSE LET g == new_variable_omit_prime_order_check(cs, Head(gs), mode) IN
         LET rest == Vec_new_variable_unchecked(g.cs, Tail(gs), mode) IN
         [res |-> Ok(<<g.res.val>> \o rest.res.val), cs |-> rest.cs]

\* BooleanInputVar::new_input: each field element as NumBits bits, least
\* significant first
RECURSIVE ToBitsLE(_, _)
ToBitsLE(v, n) == IF n = 0 THEN << >> ELSE <<v % 2>> \o ToBitsLE(v \div 2, n - 1)

InputVar_new_input(cs, vals) ==
    [res |-> Ok([i \in 1..Len(vals) |-> ToBitsLE(vals[i], NumBits)]),
     cs |-> [cs EXCEPT !.num_allocs = @ + Len(vals)]]

new_proof_unchecked_eager(cs, f, mode) ==
    LET a == new_variable_omit_prime_order_check(cs, 0, mode) IN
    IF f.kind # "Ok" THEN [res |-> f, cs |-> a.cs] ELSE
    LET b == new_variable_omit_prime_order_check(a.cs, f.val.b, mode) IN
    LET c == new_variable_omit_prime_order_check(b.cs, f.val.c, mode) IN
    [res |-> Ok([a |-> f.val.a, b |-> b.res.val, c |-> c.res.val]), cs |-> c.cs]

\* Groth16VerifierGadget::new_proof_unchecked
new_proof_unchecked(cs, f, mode) ==
    IF f.kind # "Ok" THEN [res |-> f, cs |-> cs] ELSE
    LET a == new_variable_omit_prime_order_check(cs, f.val.a, mode) IN
    LET b == new_variable_omit_prime_order_check(a.cs, f.val.b, mode) IN
    LET c == new_variable_omit_prime_order_check(b.cs, f.val.c, mode) IN
    [res |-> Ok([a |-> a.res.val, b |-> b.res.val, c |-> c.res.val]), cs |-> c.cs]

\* Groth16VerifierGadget::new_verification_key_unchecked
new_verification_key_unchecked(cs, f, mode) ==
    IF f.kind # "Ok" THEN [res |-> f, cs |-> cs] ELSE
    LET alpha_g1 == new_variable_omit_prime_order_check(cs, f.val.alpha_g1, mode) IN
    LET beta_g2 == new_variable_omit_prime_order_check(alpha_g1.cs, f.val.beta_g2, mode) IN
    LET gamma_g2 == new_variable_omit_prime_order_check(beta_g2.cs, f.val.gamma_g2, mode) IN
    LET delta_g2 == new_variable_omit_prime_order_check(gamma_g2.cs, f.val.delta_g2, mode) IN
    LET gamma_abc_g1 == Vec_new_variable_unchecked(delta_g2.cs, f.val.gamma_abc_g1, mode) IN
    [res |-> Ok([alpha_g1 |-> alpha_g1.res.val, beta_g2 |-> beta_g2.res.val,
                 gamma_g2 |-> gamma_g2.res.val, delta_g2 |-> delta_g2.res.val,
                 gamma_abc_g1 |-> gamma_abc_g1.res.val]),
     cs |-> gamma_abc_g1.cs]

\* the allocation with delta_g2_neg_pc read for both prepared elements
PreparedVerifyingKeyVar_new_variable_copied(cs, f, mode, rej) ==
    IF f.kind # "Ok" THEN [res |-> f, cs |-> cs] ELSE
    LET alpha_g1_beta_g2 == T_new_variable(cs, f.val.alpha_g1_beta_g2, mode) IN
    LET gamma_g2_neg_pc == T_new_variable(alpha_g1_beta_g2.cs, f.val.delta_g2_neg_pc, mode) IN
    LET delta_g2_neg_pc == T_new_variable(gamma_g2_neg_pc.cs, f.val.delta_g2_neg_pc, mode) IN
    LET gamma_abc_g1 == Vec_new_variable(delta_g2_neg_pc.cs, f.val.vk.gamma_abc_g1, mode, rej) IN
    IF gamma_abc_g1.res.kind # "Ok" THEN gamma_abc_g1 ELSE
    [res |-> Ok([alpha_g1_beta_g2 |-> alpha_g1_beta_g2.res.val,
                 gamma_g2_neg_pc |-> gamma_g2_neg_pc.res.val,
                 delta_g2_neg_pc |-> delta_g2_neg_pc.res.val,
                 gamma_abc_g1 |-> gamma_abc_g1.res.val]),
     cs |-> gamma_abc_g1.cs]

\* the allocation with the two prepared elements exchanged
PreparedVerifyingKeyVar_new_variable_swapped(cs, f, mode, rej) ==
    IF f.kind # "Ok" THEN [res |-> f, cs |-> cs] ELSE
    LET alpha_g1_beta_g2 == T_new_variable(cs, f.val.alpha_g1_beta_g2, mode) IN
    LET gamma_g2_neg_pc == T_new_variable(alpha_g1_beta_g2.cs, f.val.delta_g2_neg_pc, mode) IN
    LET delta_g2_neg_pc == T_new_variable(gamma_g2_neg_pc.cs, f.val.gamma_g2_neg_pc, mode) IN
    LET gamma_abc_g1 == Vec_new_variable(delta_g2_neg_pc.cs, f.val.vk.gamma_abc_g1, mode, rej) IN
    IF gamma_abc_g1.res.kind # "Ok" THEN gamma_abc_g1 ELSE
    [res |-> Ok([alpha_g1_beta_g2 |-> alpha_g1_beta_g2.res.val,
                 gamma_g2_neg_pc |-> gamma_g2_neg_pc.res.val,
                 delta_g2_neg_pc |-> delta_g2_neg_pc.res.val,
                 gamma_abc_g1 |-> gamma_abc_g1.res.val]),
     cs |-> gamma_abc_g1.cs]

\* AllocVar<PreparedVerifyingKey> for PreparedVerifyingKeyVar
PreparedVerifyingKeyVar_new_variable(cs, f, mode, rej) ==
    IF f.kind # "Ok" THEN [res |-> f, cs |-> cs] ELSE
    LET alpha_g1_beta_g2 == T_new_variable(cs, f.val.alpha_g1_beta_g2, mode) IN
    LET gamma_g2_neg_pc == T_new_variable(alpha_g1_beta_g2.cs, f.val.gamma_g2_neg_pc, mode) IN
    LET delta_g2_neg_pc == T_new_variable(gamma_g2_neg_pc.cs, f.val.delta_g2_neg_pc, mode) IN
    LET gamma_abc_g1 == Vec_new_variable(delta_g2_neg_pc.cs, f.val.vk.gamma_abc_g1, mode, rej) IN
    IF gamma_abc_g1.res.kind # "Ok" THEN gamma_abc_g1 ELSE
    [res |-> Ok([alpha_g1_beta_g2 |-> alpha_g1_beta_g2.res.val,
                 gamma_g2_neg_pc |-> gamma_g2_neg_pc.res.val,
                 delta_g2_neg_pc |-> delta_g2_neg_pc.res.val,
                 gamma_abc_g1 |-> gamma_abc_g1.res.val]),
     cs |-> gamma_abc_g1.cs]

\* AllocVar<VerifyingKey> for VerifyingKeyVar
VerifyingKeyVar_new_variable(cs, f, mode, rej) ==
    IF f.kind # "Ok" THEN [res |-> f, cs |-> cs] ELSE
    LET alpha_g1 == G_new_variable(cs, f.val.alpha_g1, mode, rej) IN
    IF alpha_g1.res.kind # "Ok" THEN alpha_g1 ELSE
    LET beta_g2 == G_new_variable(alpha_g1.cs, f.val.beta_g2, mode, rej) IN
    IF beta_g2.res.kind # "Ok" THEN beta_g2 ELSE
    LET gamma_g2 == G_new_variable(beta_g2.cs, f.val.gamma_g2, mode, rej) IN
    IF gamma_g2.res.kind # "Ok" THEN gamma_g2 ELSE
    LET delta_g2 == G_new_variable(gamma_g2.cs, f.val.delta_g2, mode, rej) IN
    IF delta_g2.res.kind # "Ok" THEN delta_g2 ELSE
    LET gamma_abc_g1 == Vec_new_variable(delta_g2.cs, f.val.gamma_abc_g1, mode, rej) IN
    IF gamma_abc_g1.res.kind # "Ok" THEN gamma_abc_g1 ELSE
    [res |-> Ok([alpha_g1 |-> alpha_g1.res.val, beta_g2 |-> beta_g2.res.val,
                 gamma_g2 |-> gamma_g2.res.val, delta_g2 |-> delta_g2.res.val,
                 gamma_abc_g1 |-> gamma_abc_g1.res.val]),
     cs |-> gamma_abc_g1.cs]

\* AllocVar<Proof> for ProofVar
ProofVar_new_variable(cs, f, mode, rej) ==
    IF f.kind # "Ok" THEN [res |-> f, cs |-> cs] ELSE
    LET a == G_new_variable(cs, f.val.a, mode, rej) IN
    IF a.res.kind # "Ok" THEN a ELSE
    LET b == G_new_variable(a.cs, f.val.b, mode, rej) IN
    IF b.res.kind # "Ok" THEN b ELSE
    LET c == G_new_variable(b.cs, f.val.c, mode, rej) IN
    IF c.res.kind # "Ok" THEN c ELSE
    [res |-> Ok([a |-> a.res.val, b |-> b.res.val, c |-> c.res.val]), cs |-> c.cs]

\* -------------------------------------------------------------- encoding
\* The encodings of one group element (the capability's): a G1 element is
\* two coordinates, a G2 element four; `kind` names the encoder.
G1_encode(kind, g, fail) ==
    IF fail = kind THEN Err(kind)
    ELSE IF kind = "to_sponge_field_elements" THEN Ok(<<PtS(g) + 10 * PtT(g)>>)
    ELSE Ok(<<PtS(g), PtT(g)>>)

G2_encode(kind, g, fail) ==
    IF fail = kind THEN Err(kind)
    ELSE IF kind = "to_sponge_field_elements" THEN Ok(<<PtS(g) + 10 * PtT(g), 0>>)
    ELSE Ok(<<PtS(g), 0, PtT(g), 0>>)

\* the loop over gamma_abc_g1: bytes.extend(g.<encoder>()?)
RECURSIVE extend_each(_, _, _, _)
extend_each(bytes, gs, kind, fail) ==
    IF gs = << >> THEN Ok(bytes)
    ELSE LET e == G1_encode(kind, Head(gs), fail) IN
         IF e.kind # "Ok" THEN e
         ELSE extend_each(bytes \o e.val, Tail(gs), kind, fail)

\* AbsorbGadget::to_sponge_bytes for VerifyingKeyVar
to_sponge_bytes(self, fail) ==
    LET alpha == G1_encode("to_sponge_bytes", self.alpha_g1, fail) IN
    IF alpha.kind # "Ok" THEN alpha ELSE
    LET beta == G2_encode("to_sponge_bytes", self.beta_g2, fail) IN
    IF beta.kind # "Ok" THEN beta ELSE
    LET gamma == G2_encode("to_sponge_bytes", self.gamma_g2, fail) IN
    IF gamma.kind # "Ok" THEN gamma ELSE
    LET delta == G2_encode("to_sponge_bytes", self.delta_g2, fail) IN
    IF delta.kind # "Ok" THEN delta ELSE
    extend_each(alpha.val \o beta.val \o gamma.val \o delta.val,
                self.gamma_abc_g1, "to_sponge_bytes", fail)

\* AbsorbGadget::to_sponge_field_elements for VerifyingKeyVar
to_sponge_field_elements(self, fail) ==
    LET alpha == G1_encode("to_sponge_field_elements", self.alpha_g1, fail) IN
    IF alpha.kind # "Ok" THEN alpha ELSE
    LET beta == G2_encode("to_sponge_field_elements", self.beta_g2, fail) IN
    IF beta.kind # "Ok" THEN beta ELSE
    LET gamma == G2_encode("to_sponge_field_elements", self.gamma_g2, fail) IN
    IF gamma.kind # "Ok" THEN gamma ELSE
    LET delta == G2_encode("to_sponge_field_elements", self.delta_g2, fail) IN
    IF delta.kind # "Ok" THEN delta ELSE
    extend_each(alpha.val \o beta.val \o gamma.val \o delta.val,
                self.gamma_abc_g1, "to_sponge_field_elements", fail)

\* to_bytes_le that leaves delta_g2 out
to_bytes_le_nodelta(self, fail) ==
    LET alpha == G1_encode("to_bytes_le", self.alpha_g1, fail) IN
    IF alpha.kind # "Ok" THEN alpha ELSE
    LET beta == G2_encode("to_bytes_le", self.beta_g2, fail) IN
    IF beta.kind # "Ok" THEN beta ELSE
    LET gamma == G2_encode("to_bytes_le", self.gamma_g2, fail) IN
    IF gamma.kind # "Ok" THEN gamma ELSE
    extend_each(<< >> \o alpha.val \o beta.val \o gamma.val,
                self.gamma_abc_g1, "to_bytes_le", fail)

\* ToBytesGadget::to_bytes_le for VerifyingKeyVar
to_bytes_le(self, fail) ==
    LET alpha == G1_encode("to_bytes_le", self.alpha_g1, fail) IN
    IF alpha.kind # "Ok" THEN alpha ELSE
    LET beta == G2_encode("to_bytes_le", self.beta_g2, fail) IN
    IF beta.kind # "Ok" THEN beta ELSE
    LET gamma == G2_encode("to_bytes_le", self.gamma_g2, fail) IN
    IF gamma.kind # "Ok" THEN gamma ELSE
    LET delta == G2_encode("to_bytes_le", self.delta_g2, fail) IN
    IF delta.kind # "Ok" THEN delta ELSE
    extend_each(<< >> \o alpha.val \o beta.val \o gamma.val \o delta.val,
                self.gamma_abc_g1, "to_bytes_le", fail)

\* ------------------------------------------------- the native algorithms
\* e(P, Q) of the native pairing
NativePairing(p, q) == ExpCofactor * ((PtS(p) * PtS(q)) % Order)

NativeNeg(p) == Pt((Order - PtS(p)) % Order, (Cofactor - PtT(p)) % Cofactor)

NativeMul(k, p) == Pt((k * PtS(p)) % Order, (k * PtT(p)) % Cofactor)

\* Groth16::process_vk
process_vk(nvk) ==
    [vk |-> nvk,
     alpha_g1_beta_g2 |-> NativePairing(nvk.alpha_g1, nvk.beta_g2),
     gamma_g2_neg_pc |-> [prep |-> "G2", pt |-> NativeNeg(nvk.gamma_g2)],
     delta_g2_neg_pc |-> [prep |-> "G2", pt |-> NativeNeg(nvk.delta_g2)]]

\* gamma_abc[0] + sum of inputs[i] * gamma_abc[i+1]
RECURSIVE NativeInputSum(_, _)
NativeInputSum(inputs, gs) ==
    IF inputs = << >> \/ gs = << >> THEN 0
    ELSE G1_add(NativeMul(Head(inputs), Head(gs)),
                NativeInputSum(Tail(inputs), Tail(gs)))

\* Groth16::verify: e(A,B) = e(alpha,beta) * e(g_ic,gamma) * e(C,delta)
NativeVerify(nvk, inputs, nproof) ==
    /\ Len(inputs) + 1 = Len(nvk.gamma_abc_g1)
    /\ LET g_ic == G1_add(nvk.gamma_abc_g1[1],
                          NativeInputSum(inputs, Tail(nvk.gamma_abc_g1)))
       IN NativePairing(nproof.a, nproof.b) =
             (NativePairing(nvk.alpha_g1, nvk.beta_g2)
              + NativePairing(g_ic, nvk.gamma_g2)
              + NativePairing(nproof.c, nvk.delta_g2)) % GtModulus

\* ----------------------------------------------------------------- state
VARIABLES
    nvk,      \* the native verifying key of the run
    nproof,   \* the native proof of the run
    nx,       \* the native public inputs of the run
    vk,       \* << >> or <<the VerifyingKeyVar allocated>>
    proof,    \* << >> or <<the ProofVar allocated>>
    x,        \* << >> or <<the BooleanInputVar allocated>>
    pvk,      \* << >> or <<the PreparedVerifyingKeyVar last produced>>
    pvkFrom,  \* "none", "prepare" or "new_variable": what produced pvk
    cs,       \* the constraint system
    firstRes, \* << >> or <<[val |-> the first boolean verify_with_processed_vk
              \*   gave on pvk, failed |-> a later call on pvk gave none]>>
    out       \* the last call: its name, the failing capability, its outcome

vars == <<nvk, nproof, nx, vk, proof, x, pvk, pvkFrom, cs, firstRes, out>>

NoPoint == 0 - 1

SeqsUpTo(S, n) == UNION {[1..k -> S] : k \in 0..n}

OffPoint == Pt(1, 1)

NoOut == [op |-> "none", fail |-> "none", res |-> Ok(FALSE), g_ic |-> NoPoint,
          enforced |-> FALSE]

Call(op, fail, res, g_ic) ==
    [op |-> op, fail |-> fail, res |-> res, g_ic |-> g_ic, enforced |-> FALSE]

PrepareFails == {"none", "prepare_g1", "prepare_g2", "pairing", "negate"}

ProcessedFails == {"none", "to_bits_le", "scalar_mul_le", "prepare_g1", "prepare_g2",
                   "miller_loop", "final_exponentiation", "is_eq"}

\* The keys, proofs and inputs of the verification runs: all in the subgroup.
Alternating(n, first) == [i \in 1..n |-> IF i % 2 = 1 THEN first ELSE 3 - first]

VerifyKeys ==
    {[alpha_g1 |-> 1, beta_g2 |-> 2, gamma_g2 |-> 2, delta_g2 |-> 1,
      gamma_abc_g1 |-> Alternating(n, first)] : n \in 0..MaxQuery, first \in {1, 2}}

VerifyProofs == {[a |-> a, b |-> 1, c |-> 2] : a \in {0, 1, 2}}

VerifyInputs == SeqsUpTo({1, 2}, MaxInputs)

\* The keys and proofs of the allocation runs: some hold a point outside the
\* subgroup.
AllocKeys ==
    {[alpha_g1 |-> 1, beta_g2 |-> 2, gamma_g2 |-> 2, delta_g2 |-> 1, gamma_abc_g1 |-> <<1, 2>>],
     [alpha_g1 |-> OffPoint, beta_g2 |-> 2, gamma_g2 |-> 1, delta_g2 |-> 1,
      gamma_abc_g1 |-> <<2>>],
     [alpha_g1 |-> 2, beta_g2 |-> 1, gamma_g2 |-> 2, delta_g2 |-> 2,
      gamma_abc_g1 |-> <<2, OffPoint>>]}

AllocProofs == {[a |-> 1, b |-> 1, c |-> 2], [a |-> OffPoint, b |-> 2, c |-> 0]}

\* The state of test::groth16_snark_test once the input, the proof (a witness)
\* and the key (a constant) are allocated in a new constraint system.
Init ==
    /\ nvk \in VerifyKeys
    /\ nproof \in VerifyProofs
    /\ nx \in VerifyInputs
    /\ LET i == InputVar_new_input(EmptyCs, nx)
           p == ProofVar_new_variable(i.cs, Ok(nproof), "Witness", TRUE)
           k == VerifyingKeyVar_new_variable(p.cs, Ok(nvk), "Constant", TRUE)
       IN /\ x = <<i.res.val>>
          /\ proof = <<p.res.val>>
          /\ vk = <<k.res.val>>
          /\ cs = k.cs
    /\ pvk = << >>
    /\ pvkFrom = "none"
    /\ firstRes = << >>
    /\ out = NoOut

\* A new constraint system and nothing allocated.
InitAlloc ==
    /\ nvk \in AllocKeys
    /\ nproof \in AllocProofs
    /\ nx = << >>
    /\ vk = << >>
    /\ proof = << >>
    /\ x = << >>
    /\ pvk = << >>
    /\ pvkFrom = "none"
    /\ cs = EmptyCs
    /\ firstRes = << >>
    /\ out = NoOut

Producer(fok, v) == IF fok THEN Ok(v) ELSE Err("AssignmentMissing")

\* ---------------------------------------------------------------- actions
Prepare ==
    /\ vk # << >>
    /\ \E fail \in PrepareFails :
         LET r == prepare(vk[1], fail) IN
         /\ pvk' = IF r.kind = "Ok" THEN <<r.val>> ELSE pvk
         /\ pvkFrom' = IF r.kind = "Ok" THEN "prepare" ELSE pvkFrom
         /\ firstRes' = IF r.kind = "Ok" THEN << >> ELSE firstRes
         /\ out' = Call("prepare", fail, r, NoPoint)
    /\ UNCHANGED <<nvk, nproof, nx, vk, proof, x, cs>>

GhostGic(k, fail) ==
    LET g == accumulate(k, x[1], fail) IN IF g.kind = "Ok" THEN g.val ELSE NoPoint

Verify ==
    /\ vk # << >> /\ x # << >> /\ proof # << >>
    /\ \E fail \in PrepareFails \cup ProcessedFails :
         LET r == verify(vk[1], x[1], proof[1], fail)
             k == prepare(vk[1], fail)
         IN out' = Call("verify", fail, r,
                        IF k.kind = "Ok" THEN GhostGic(k.val, fail) ELSE NoPoint)
    /\ UNCHANGED <<nvk, nproof, nx, vk, proof, x, pvk, pvkFrom, cs, firstRes>>

VerifyWithProcessedVk ==
    /\ pvk # << >> /\ x # << >> /\ proof # << >>
    /\ \E fail \in ProcessedFails :
         LET r == verify_with_processed_vk(pvk[1], x[1], proof[1], fail)
             after == verify_with_processed_vk_borrowed(pvk[1], x[1], proof[1], fail)
         IN /\ out' = Call("verify_with_processed_vk", fail, r, GhostGic(pvk[1], fail))
            /\ pvk' = <<after.circuit_pvk>>
            /\ x' = <<after.x>>
            /\ proof' = <<after.proof>>
            /\ firstRes' = IF firstRes = << >>
                           THEN IF r.kind = "Ok"
                                THEN <<[val |-> r.val, failed |-> FALSE]>>
                                ELSE firstRes
                           ELSE IF r.kind = "Ok"
                                THEN firstRes
                                ELSE <<[firstRes[1] EXCEPT !.failed = TRUE]>>
    /\ UNCHANGED <<nvk, nproof, nx, vk, pvkFrom, cs>>

\* .enforce_equal(&Boolean::constant(true)) on the boolean just returned
EnforceTrue ==
    /\ out.op \in {"verify", "verify_with_processed_vk"}
    /\ out.res.kind = "Ok"
    /\ ~out.enforced
    /\ cs' = [cs EXCEPT !.sat = @ /\ out.res.val]
    /\ out' = [out EXCEPT !.enforced = TRUE]
    /\ UNCHANGED <<nvk, nproof, nx, vk, proof, x, pvk, pvkFrom, firstRes>>

AllocPreparedVerifyingKey ==
    /\ cs.num_allocs + 3 + Len(nvk.gamma_abc_g1) <= MaxAllocs
    /\ \E fok \in BOOLEAN, mode \in Modes, rej \in BOOLEAN :
         LET r == PreparedVerifyingKeyVar_new_variable(
                      cs, Producer(fok, process_vk(nvk)), mode, rej) IN
         /\ pvk' = IF r.res.kind = "Ok" THEN <<r.res.val>> ELSE pvk
         /\ pvkFrom' = IF r.res.kind = "Ok" THEN "new_variable" ELSE pvkFrom
         /\ firstRes' = IF r.res.kind = "Ok" THEN << >> ELSE firstRes
         /\ cs' = r.cs
         /\ out' = Call("PreparedVerifyingKeyVar::new_variable",
                        IF fok THEN "none" ELSE "producer", r.res, NoPoint)
    /\ UNCHANGED <<nvk, nproof, nx, vk, proof, x>>

AllocVerifyingKey ==
    /\ cs.num_allocs + 4 + Len(nvk.gamma_abc_g1) <= MaxAllocs
    /\ \E fok \in BOOLEAN, mode \in Modes, rej \in BOOLEAN :
         LET r == VerifyingKeyVar_new_variable(cs, Producer(fok, nvk), mode, rej) IN
         /\ vk' = IF r.res.kind = "Ok" THEN <<r.res.val>> ELSE vk
         /\ cs' = r.cs
         /\ out' = Call("VerifyingKeyVar::new_variable",
                        IF fok THEN "none" ELSE "producer", r.res, NoPoint)
    /\ UNCHANGED <<nvk, nproof, nx, proof, x, pvk, pvkFrom, firstRes>>

AllocProof ==
    /\ cs.num_allocs + 3 <= MaxAllocs
    /\ \E fok \in BOOLEAN, mode \in Modes, rej \in BOOLEAN :
         LET r == ProofVar_new_variable(cs, Producer(fok, nproof), mode, rej) IN
         /\ proof' = IF r.res.kind = "Ok" THEN <<r.res.val>> ELSE proof
         /\ cs' = r.cs
         /\ out' = Call("ProofVar::new_variable", IF fok THEN "none" ELSE "producer", r.res, NoPoint)
    /\ UNCHANGED <<nvk, nproof, nx, vk, x, pvk, pvkFrom, firstRes>>

NewVerificationKeyUnchecked ==
    /\ cs.num_allocs + 4 + Len(nvk.gamma_abc_g1) <= MaxAllocs
    /\ \E fok \in BOOLEAN, mode \in Modes :
         LET r == new_verification_key_unchecked(cs, Producer(fok, nvk), mode) IN
         /\ vk' = IF r.res.kind = "Ok" THEN <<r.res.val>> ELSE vk
         /\ cs' = r.cs
         /\ out' = Call("new_verification_key_unchecked",
                        IF fok THEN "none" ELSE "producer", r.res, NoPoint)
    /\ UNCHANGED <<nvk, nproof, nx, proof, x, pvk, pvkFrom, firstRes>>

NewProofUnchecked ==
    /\ cs.num_allocs + 3 <= MaxAllocs
    /\ \E fok \in BOOLEAN, mode \in Modes :
         LET r == new_proof_unchecked(cs, Producer(fok, nproof), mode) IN
         /\ proof' = IF r.res.kind = "Ok" THEN <<r.res.val>> ELSE proof
         /\ cs' = r.cs
         /\ out' = Call("new_proof_unchecked", IF fok THEN "none" ELSE "producer", r.res, NoPoint)
    /\ UNCHANGED <<nvk, nproof, nx, vk, x, pvk, pvkFrom, firstRes>>

ToBytesLe ==
    /\ vk # << >>
    /\ \E fail \in {"none", "to_bytes_le"} :
         out' = Call("to_bytes_le", fail, to_bytes_le(vk[1], fail), NoPoint)
    /\ UNCHANGED <<nvk, nproof, nx, vk, proof, x, pvk, pvkFrom, cs, firstRes>>

ToSpongeBytes ==
    /\ vk # << >>
    /\ \E fail \in {"none", "to_sponge_bytes"} :
         out' = Call("to_sponge_bytes", fail, to_sponge_bytes(vk[1], fail), NoPoint)
    /\ UNCHANGED <<nvk, nproof, nx, vk, proof, x, pvk, pvkFrom, cs, firstRes>>

ToSpongeFieldElements ==
    /\ vk # << >>
    /\ \E fail \in {"none", "to_sponge_field_elements"} :
         out' = Call("to_sponge_field_elements", fail,
                     to_sponge_field_elements(vk[1], fail), NoPoint)
    /\ UNCHANGED <<nvk, nproof, nx, vk, proof, x, pvk, pvkFrom, cs, firstRes>>

Next ==
    \/ Prepare
    \/ Verify
    \/ VerifyWithProcessedVk
    \/ AllocPreparedVerifyingKey
    \/ EnforceTrue

Spec == Init /\ [][Next]_vars

NextAlloc ==
    \/ AllocProof
    \/ AllocVerifyingKey
    \/ AllocPreparedVerifyingKey
    \/ NewProofUnchecked
    \/ NewVerificationKeyUnchecked
    \/ ToBytesLe
    \/ ToSpongeBytes
    \/ ToSpongeFieldElements

SpecAlloc == InitAlloc /\ [][NextAlloc]_vars

\* ----------------------------------------------------------------- claims
SameOutcome(r1, r2) == r1.kind = r2.kind /\ r1.val = r2.val

VerifyOps == {"verify", "verify_with_processed_vk"}

AllocOps == {"ProofVar::new_variable", "VerifyingKeyVar::new_variable",
             "PreparedVerifyingKeyVar::new_variable", "new_proof_unchecked",
             "new_verification_key_unchecked"}

\* gamma_abc_g1 of the key the last verification call was given
KeyQuery == IF out.op = "verify" THEN vk[1].gamma_abc_g1 ELSE pvk[1].gamma_abc_g1

LengthsMatch == Len(x[1]) + 1 = Len(KeyQuery)

\* C1: a verification call on a key with at least one gamma_abc_g1 element and
\* an input vector whose length is not len(gamma_abc_g1) - 1 aborts on the
\* length assertion (no capability operation failing): it returns no boolean.
C1_LengthMismatchAborts ==
    (/\ out.op \in VerifyOps
     /\ out.fail = "none"
     /\ Len(KeyQuery) >= 1
     /\ ~LengthsMatch)
    => out.res.kind = "Abort"

\* C2: with inputs of matching length, a boolean returned by verify is the
\* truth value of e(A,B) = e(alpha,beta) * e(g_ic,gamma) * e(C,delta), which is
\* the native verifier's answer; and verify returns a boolean when no
\* capability operation fails.
C2_VerifyIffEquation ==
    (out.op = "verify" /\ LengthsMatch)
    => /\ out.res.kind = "Ok" => out.res.val = NativeVerify(nvk, nx, nproof)
       /\ out.fail = "none" => out.res.kind = "Ok"

C2_Witness ==
    /\ out.op = "verify"
    /\ out.res.kind = "Ok" /\ out.res.val
    /\ Len(nx) = 2 /\ LengthsMatch

\* C3: verify gives the outcome (boolean, synthesis error or abort) of
\* verify_with_processed_vk on the prepared key, or prepare's error; and a
\* verify_with_processed_vk call on the key the Prepare step produced gives
\* the outcome of verify when the capability's prepare operations work.
C3_VerifyAgreesWithPrepared ==
    /\ out.op = "verify" =>
         LET k == prepare(vk[1], out.fail) IN
         SameOutcome(out.res,
                     IF k.kind = "Ok"
                     THEN verify_with_processed_vk(k.val, x[1], proof[1], out.fail)
                     ELSE k)
    /\ (/\ out.op = "verify_with_processed_vk"
        /\ pvkFrom = "prepare"
        /\ out.fail \notin {"prepare_g1", "prepare_g2"}) =>
         SameOutcome(out.res, verify(vk[1], x[1], proof[1], out.fail))

C3_Witness ==
    /\ out.op = "verify_with_processed_vk"
    /\ pvkFrom = "prepare"
    /\ out.res.kind = "Ok"
    /\ Len(nx) >= 1

\* C4: a step of one of the five allocators whose producer fails returns the
\* producer's failure and leaves the constraint system and every variable
\* allocated so far as they were.
C4_ProducerFailureAllocatesNothing ==
    [][(out'.op \in AllocOps /\ out'.fail = "producer")
       => /\ out'.res.kind = "Err" /\ out'.res.val = "AssignmentMissing"
          /\ cs' = cs
          /\ UNCHANGED <<vk, proof, pvk, pvkFrom>>]_vars

C4_Witness ==
    /\ out.op = "new_proof_unchecked"
    /\ out.fail = "producer"
    /\ cs.num_allocs > 0

\* the concatenation, in field order, of the elements' own encodings
RECURSIVE FlatQuery(_, _, _)
FlatQuery(kind, gs, i) ==
    IF i > Len(gs) THEN << >>
    ELSE G1_encode(kind, gs[i], "none").val \o FlatQuery(kind, gs, i + 1)

KeyEncoding(kind, k) ==
    G1_encode(kind, k.alpha_g1, "none").val \o G2_encode(kind, k.beta_g2, "none").val
    \o G2_encode(kind, k.gamma_g2, "none").val \o G2_encode(kind, k.delta_g2, "none").val
    \o FlatQuery(kind, k.gamma_abc_g1, 1)

Encoders == {"to_bytes_le", "to_sponge_bytes", "to_sponge_field_elements"}

\* C6: each encoder returns the encodings of alpha, beta, gamma, delta and
\* then gamma_abc[0], gamma_abc[1], ... of the native key the variable was
\* allocated from, concatenated in that order, whatever the allocator and the
\* mode; or the element encoder's error.
C6_EncodersConcatenateInOrder ==
    out.op \in Encoders =>
        IF out.fail = out.op
        THEN out.res.kind = "Err" /\ out.res.val = out.op
        ELSE out.res.kind = "Ok" /\ out.res.val = KeyEncoding(out.op, nvk)

C6_Witness ==
    /\ out.op = "to_sponge_field_elements"
    /\ out.res.kind = "Ok"
    /\ Len(nvk.gamma_abc_g1) = 2

\* pairing(alpha, beta), prepare(-gamma), prepare(-delta) of a key
PreparedOf(k) ==
    [alpha_g1_beta_g2 |-> NativePairing(k.alpha_g1, k.beta_g2),
     gamma_g2_neg_pc |-> [prep |-> "G2", pt |-> NativeNeg(k.gamma_g2)],
     delta_g2_neg_pc |-> [prep |-> "G2", pt |-> NativeNeg(k.delta_g2)],
     gamma_abc_g1 |-> k.gamma_abc_g1]

\* C7 as stated: every PreparedVerifyingKeyVar was obtained by prepare() on a
\* VerifyingKeyVar.
C7_OnlyFromPrepare == pvk # << >> => pvkFrom = "prepare"

\* C7 as amended: a PreparedVerifyingKeyVar comes from prepare() on a
\* VerifyingKeyVar, and then holds pairing(alpha, beta), prepare(-gamma),
\* prepare(-delta) and gamma_abc of that key, or from
\* PreparedVerifyingKeyVar::new_variable, and then holds the four components
\* of the native PreparedVerifyingKey it was given.
C7_FromPrepareOrNative ==
    pvk # << >> =>
        \/ pvkFrom = "prepare" /\ pvk[1] = PreparedOf(vk[1])
        \/ /\ pvkFrom = "new_variable"
           /\ LET n == process_vk(nvk) IN
              pvk[1] = [alpha_g1_beta_g2 |-> n.alpha_g1_beta_g2,
                        gamma_g2_neg_pc |-> n.gamma_g2_neg_pc,
                        delta_g2_neg_pc |-> n.delta_g2_neg_pc,
                        gamma_abc_g1 |-> n.vk.gamma_abc_g1]

C7_Witness == pvk # << >> /\ pvkFrom = "new_variable" /\ Len(pvk[1].gamma_abc_g1) = 2

\* C8: verify_with_processed_vk on the PreparedVerifyingKeyVar allocated from
\* process_vk(vk) gives the outcome of verify on the VerifyingKeyVar allocated
\* from vk; for a triple the native verifier accepts it is true, and the
\* constraint system is still satisfied once it is enforced.
C8_NativePreparedAgrees ==
    (out.op = "verify_with_processed_vk" /\ pvkFrom = "new_variable") =>
        /\ out.fail = "none" =>
             SameOutcome(out.res, verify(vk[1], x[1], proof[1], "none"))
        /\ out.res.kind = "Ok" =>
             SameOutcome(out.res, verify(vk[1], x[1], proof[1], "none"))
        /\ (NativeVerify(nvk, nx, nproof) /\ out.fail = "none") =>
             out.res.kind = "Ok" /\ out.res.val
        /\ (NativeVerify(nvk, nx, nproof) /\ out.enforced) => cs.sat

C8_Witness ==
    /\ out.op = "verify_with_processed_vk"
    /\ pvkFrom = "new_variable"
    /\ NativeVerify(nvk, nx, nproof)
    /\ out.enforced /\ cs.sat
    /\ Len(nx) >= 1

\* the integer a bit sequence stands for, least significant bit first
RECURSIVE BitsValue(_, _)
BitsValue(bits, i) ==
    IF i > Len(bits) THEN 0 ELSE bits[i] * 2 ^ (i - 1) + BitsValue(bits, i + 1)

RECURSIVE InputSum(_, _, _)
InputSum(inputs, gs, i) ==
    IF i > Len(inputs) THEN 0
    ELSE BitsValue(inputs[i], 1) * PtS(gs[i + 1]) + InputSum(inputs, gs, i + 1)

\* C9: with len(x) = len(gamma_abc_g1) - 1 the accumulator of step A is
\* gamma_abc[0] + sum of x[i] * gamma_abc[i+1], x[i] read from its bits least
\* significant first; it is computed whenever no capability operation fails.
C9_AccumulatorIsInputSum ==
    (out.op \in VerifyOps /\ LengthsMatch) =>
        /\ out.g_ic # NoPoint =>
             /\ InSubgroup(out.g_ic)
             /\ PtS(out.g_ic) = (PtS(KeyQuery[1]) + InputSum(x[1], KeyQuery, 1)) % Order
        /\ out.fail = "none" => out.g_ic # NoPoint

C9_Witness ==
    /\ out.op = "verify_with_processed_vk"
    /\ out.g_ic # NoPoint
    /\ Len(x[1]) = 2 /\ LengthsMatch

\* C10: prepare returns the failure of the sub-step that fails, and no key; or
\* the key holding pairing(alpha, beta), prepare(-gamma), prepare(-delta) and
\* the input key's gamma_abc_g1, element for element.
C10_PrepareAllOrNothing ==
    out.op = "prepare" =>
        IF out.fail \in {"prepare_g1", "prepare_g2", "pairing", "negate"}
        THEN out.res.kind = "Err" /\ out.res.val = out.fail
        ELSE /\ out.res.kind = "Ok"
             /\ out.res.val = PreparedOf(vk[1])
             /\ pvk = <<out.res.val>>

C10_Witness ==
    /\ out.op = "prepare"
    /\ out.res.kind = "Err" /\ out.res.val = "negate"
    /\ Len(vk[1].gamma_abc_g1) = 2

\* a step that is a verify_with_processed_vk call
IsProcessedCall == out'.op = "verify_with_processed_vk" /\ ~out'.enforced

====
